---- MODULE Spec2Model ----
(***************************************************************************)
(* Model of src/backend/routers/announcements.py: the announcements        *)
(* endpoints of the High School Management System API.                     *)
(*                                                                         *)
(* The Announcement Store is the MongoDB collection announcements_         *)
(* collection; the handlers are FastAPI sync endpoints, run on a thread    *)
(* pool, so every store operation of a handler is one atomic step and the  *)
(* steps of different requests interleave.                                 *)
(***************************************************************************)
EXTENDS Naturals, Sequences, FiniteSets

(***************************************************************************)
(* Text.  A Python str is a sequence of one-character strings.  Chars      *)
(* lists the characters used, in code point order, so that Ord orders      *)
(* them as Python and MongoDB (simple binary collation) do.                *)
(***************************************************************************)
Chars ==
    << "+", "-", ".", "0", "1", "2", "3", "4", "5", "6", "7", "8", "9", ":",
       "A", "B", "C", "D", "E", "F", "T", "Z",
       "a", "b", "c", "d", "e", "f", "n", "o", "t" >>

\* the place of each character in Chars
OrdOf == [c \in {Chars[i] : i \in 1..Len(Chars)} |-> CHOOSE i \in 1..Len(Chars) : Chars[i] = c]

Ord(c) == OrdOf[c]

Digits == {"0", "1", "2", "3", "4", "5", "6", "7", "8", "9"}

DigitVal(c) == Ord(c) - Ord("0")

Min(a, b) == IF a <= b THEN a ELSE b

\* a < b for two strings: the first differing character decides, a proper
\* prefix is smaller.
StrLt(a, b) ==
    \E i \in 1..(Min(Len(a), Len(b)) + 1) :
        /\ \A j \in 1..(i - 1) : a[j] = b[j]
        /\ \/ i > Len(a) /\ i <= Len(b)
           \/ i <= Len(a) /\ i <= Len(b) /\ Ord(a[i]) < Ord(b[i])

StrLe(a, b) == a = b \/ StrLt(a, b)

\* Optional[str] = None.  No text is this one-element sequence.
None == << "None" >>

\* Python truthiness of an Optional[str]: None and "" are falsy.
Truthy(s) == s # None /\ s # << >>

RECURSIVE Flatten(_)
Flatten(ss) == IF ss = << >> THEN << >> ELSE Head(ss) \o Flatten(Tail(ss))

\* s.replace("Z", "+00:00")
ReplaceZ(s) ==
    Flatten([i \in 1..Len(s) |->
                IF s[i] = "Z" THEN << "+", "0", "0", ":", "0", "0" >> ELSE << s[i] >>])

IsDigits(s) == \A i \in 1..Len(s) : s[i] \in Digits

Num2(s, i) == 10 * DigitVal(s[i]) + DigitVal(s[i + 1])

Num4(s, i) == 100 * Num2(s, i) + Num2(s, i + 2)

IsLeap(y) == (y % 4 = 0 /\ y % 100 # 0) \/ y % 400 = 0

DaysInMonth(y, m) ==
    IF m = 2 THEN (IF IsLeap(y) THEN 29 ELSE 28)
    ELSE IF m \in {4, 6, 9, 11} THEN 30 ELSE 31

\* The date part YYYY-MM-DD of datetime.fromisoformat.
DateOk(s) ==
    /\ Len(s) = 10
    /\ s[5] = "-" /\ s[8] = "-"
    /\ IsDigits(SubSeq(s, 1, 4)) /\ IsDigits(SubSeq(s, 6, 7)) /\ IsDigits(SubSeq(s, 9, 10))
    /\ Num4(s, 1) >= 1
    /\ Num2(s, 6) \in 1..12
    /\ Num2(s, 9) \in 1..DaysInMonth(Num4(s, 1), Num2(s, 6))

\* HH[:MM[:SS[.fff[fff]]]]
ClockOk(s) ==
    /\ Len(s) \in {2, 5, 8, 12, 15}
    /\ IsDigits(SubSeq(s, 1, 2)) /\ Num2(s, 1) < 24
    /\ Len(s) >= 5 => s[3] = ":" /\ IsDigits(SubSeq(s, 4, 5)) /\ Num2(s, 4) < 60
    /\ Len(s) >= 8 => s[6] = ":" /\ IsDigits(SubSeq(s, 7, 8)) /\ Num2(s, 7) < 60
    /\ Len(s) >= 12 => s[9] = "." /\ IsDigits(SubSeq(s, 10, Len(s)))

\* +HH:MM or -HH:MM
OffsetOk(s) ==
    /\ Len(s) = 6
    /\ s[1] \in {"+", "-"}
    /\ ClockOk(SubSeq(s, 2, 6))

\* The time part: a clock time, then an optional UTC offset.
TimeOk(s) ==
    LET signs == {i \in 1..Len(s) : s[i] \in {"+", "-"}}
    IN  IF signs = {} THEN ClockOk(s)
        ELSE LET p == CHOOSE i \in signs : \A j \in signs : i <= j
             IN  ClockOk(SubSeq(s, 1, p - 1)) /\ OffsetOk(SubSeq(s, p, Len(s)))

\* datetime.fromisoformat(s) returns (TRUE) or raises ValueError (FALSE):
\* YYYY-MM-DD, or YYYY-MM-DD, any one separator character, and a time.
fromisoformat(s) ==
    /\ Len(s) >= 10
    /\ DateOk(SubSeq(s, 1, 10))
    /\ Len(s) > 10 => Len(s) >= 12 /\ TimeOk(SubSeq(s, 12, Len(s)))

(***************************************************************************)
(* Identifiers.  bson.ObjectId: 12 bytes, written as 24 hexadecimal        *)
(* digits; ObjectId(s) accepts either case and str(oid) is lower case.     *)
(***************************************************************************)
OidLen == 24

HexLower == Digits \cup {"a", "b", "c", "d", "e", "f"}

HexUpper == {"A", "B", "C", "D", "E", "F"}

Lower(c) == IF c \in HexUpper THEN Chars[Ord(c) - Ord("A") + Ord("a")] ELSE c

\* ObjectId.is_valid(s) for a str
is_valid(s) == Len(s) = OidLen /\ \A i \in 1..Len(s) : s[i] \in HexLower \cup HexUpper

\* ObjectId(s) of a valid s; an invalid s raises bson.errors.InvalidId
ObjectId(s) == [i \in 1..Len(s) |-> Lower(s[i])]

\* str(oid)
str(oid) == oid

\* The n-th identifier the driver generates for insert_one: fresh, never
\* handed out twice.
NewOid(n) == [i \in 1..OidLen |-> IF i < OidLen THEN "0" ELSE Chars[Ord("a") + n - 1]]

(***************************************************************************)
(* Bounds and the inputs of the requests.                                  *)
(***************************************************************************)
\* how many announcements are ever created
MaxOid == 2

\* how many update requests are in flight at once
MaxInflight == 2

\* how many requests a run serves
MaxRequests == 3

Slots == 1..MaxInflight

\* teachers_collection: the Teacher Directory, which this router only reads
Teachers == {"alice"}

\* Optional[str] = Query(None) of get_all_announcements
NoUser == "<None>"

Usernames == Teachers \cup {"mallory"}

Messages == {"m1", "m2"}

D_JUN == << "2", "0", "2", "4", "-", "0", "6", "-", "0", "1" >>

D_NY == << "2", "0", "2", "5", "-", "0", "1", "-", "0", "1", "T", "0", "0", ":", "0", "0", ":", "0", "0", "Z" >>

D_MONTH13 == << "2", "0", "2", "5", "-", "1", "3", "-", "0", "1" >>

D_WORDS == << "n", "o", "t", "-", "a", "-", "d", "a", "t", "e" >>

GoodDates == {D_JUN, D_NY}

\* datetime.utcnow().isoformat() + "Z": isoformat() leaves the fraction out
\* when the microsecond is 0.
T_2024 == << "2", "0", "2", "4", "-", "0", "1", "-", "0", "1", "T", "0", "0", ":", "0", "0", ":", "0", "0", "Z" >>

T_2025 == << "2", "0", "2", "5", "-", "0", "1", "-", "0", "1", "T", "0", "0", ":", "0", "0", ":", "0", "0", "Z" >>

Times == {T_2024, T_2025}

\* the values the requests send
ExpirationDates == {D_NY, D_WORDS}

StartDates == {None, << >>, D_JUN, D_MONTH13}

\* datetime.fromisoformat(date.replace("Z", "+00:00")) for each date the
\* requests send, worked out once: TRUE when it returns, FALSE when it raises
\* ValueError
ParseResult ==
    [date \in ExpirationDates \cup (StartDates \ {None}) |-> fromisoformat(ReplaceZ(date))]

\* DatesParse without the check of start_date
DatesParse_ExpirationOnly(expiration_date, start_date) ==
    ParseResult[expiration_date]

\* The try block of create_announcement and update_announcement: TRUE when
\* no ValueError is raised.
DatesParse(expiration_date, start_date) ==
    /\ ParseResult[expiration_date]
    /\ Truthy(start_date) => ParseResult[start_date]

(***************************************************************************)
(* Documents: functions from field names to values; a field that is not    *)
(* in the DOMAIN is absent from the document.                              *)
(***************************************************************************)
Field(f, v) == [x \in {f} |-> v]

\* {"$set": u} applied to d; also dict update
Merge(d, u) == [f \in DOMAIN d \cup DOMAIN u |-> IF f \in DOMAIN u THEN u[f] ELSE d[f]]

\* {"$unset": {f: ""}} applied to d
Unset(d, f) == [x \in DOMAIN d \ {f} |-> d[x]]

VARIABLES
    store,      \* announcements_collection: ObjectId -> document
    inserted,   \* how many identifiers insert_one has handed out
    reqs,       \* the update requests in flight, one per slot
    resp,       \* the response of the last request served in one step
    served      \* how many requests have been received

vars == << store, inserted, reqs, resp, served >>

Idle == [pc |-> "idle"]

EmptyStore == [o \in {} |-> << >>]

NoResponse == [op |-> "none", status |-> 0]

Init ==
    /\ store = EmptyStore
    /\ inserted = 0
    /\ reqs = [s \in Slots |-> Idle]
    /\ resp = NoResponse
    /\ served = 0

\* a well-formed identifier that insert_one never hands out
AbsentId == [i \in 1..OidLen |-> "0"]

\* announcement_id path parameters: the identifiers handed out so far (a
\* client learns an identifier from a response), a well-formed one of no
\* announcement and a string that is no ObjectId.
AnnouncementIds == {str(NewOid(n)) : n \in 1..inserted} \cup {AbsentId, D_WORDS}

\* TeacherFound that takes any user name that is given
TeacherFound_AnyName(teacher_username) == teacher_username \notin {NoUser, ""}

\* teachers_collection.find_one({"_id": teacher_username}) found a teacher
TeacherFound(teacher_username) == teacher_username \in Teachers

\* announcement["_id"] = str(announcement["_id"]) of a stored document
Doc(oid) == Merge(store[oid], Field("_id", str(oid)))

\* ActiveQuery with $gt for $gte on expiration_date
ActiveQuery_StrictExpiry(d, current_time) ==
    /\ \/ "start_date" \notin DOMAIN d
       \/ "start_date" \in DOMAIN d /\ StrLe(d["start_date"], current_time)
    /\ "expiration_date" \in DOMAIN d /\ StrLt(current_time, d["expiration_date"])

\* the query of get_active_announcements on one document
ActiveQuery(d, current_time) ==
    /\ \/ "start_date" \notin DOMAIN d
       \/ "start_date" \in DOMAIN d /\ StrLe(d["start_date"], current_time)
    /\ "expiration_date" \in DOMAIN d /\ StrLe(current_time, d["expiration_date"])

\* the key of sort("created_at", ...): a document without the field sorts as
\* null, before every string
SortKey(d) == IF "created_at" \in DOMAIN d THEN d["created_at"] ELSE << >>

\* find(...).sort("created_at", -1) over the identifiers ids: every order
\* of them with created_at descending (the order of equal keys is not
\* specified), each document with its _id as a string.
FindSorted(ids) ==
    { [i \in 1..Cardinality(ids) |-> Doc(p[i])] :
        p \in { q \in [1..Cardinality(ids) -> ids] :
                  /\ \A i, j \in 1..Cardinality(ids) : i # j => q[i] # q[j]
                  /\ \A i, j \in 1..Cardinality(ids) :
                        i < j => StrLe(SortKey(store[q[j]]), SortKey(store[q[i]])) } }

\* raise HTTPException(status_code, detail), as the client sees it
HTTPException(op, status_code, detail, calls) ==
    [op |-> op, status |-> status_code, body |-> [detail |-> detail], calls |-> calls]

(***************************************************************************)
(* The handlers that issue at most one operation to the collection.  Each  *)
(* is an operator from the state and the arguments to the response (and    *)
(* the collection afterwards), and an action that applies it.  calls       *)
(* lists the operations issued to announcements_collection.                *)
(***************************************************************************)
\* the responses get_active_announcements can give at current_time
get_active_announcements(current_time) ==
    { [op |-> "get_active_announcements", status |-> 200, body |-> announcements,
       calls |-> << "find" >>, now |-> current_time] :
        announcements \in
            FindSorted({o \in DOMAIN store : ActiveQuery(store[o], current_time)}) }

\* the responses get_all_announcements can give
get_all_announcements(teacher_username) ==
    IF teacher_username = NoUser \/ teacher_username = ""
    THEN {HTTPException("get_all_announcements", 401,
                        "Authentication required for this action", << >>)}
    ELSE IF ~TeacherFound(teacher_username)
    THEN {HTTPException("get_all_announcements", 401,
                        "Invalid teacher credentials", << >>)}
    ELSE { [op |-> "get_all_announcements", status |-> 200, body |-> announcements,
            calls |-> << "find" >>] :
             announcements \in FindSorted(DOMAIN store) }

\* the dict create_announcement builds before insert_one
NewAnnouncement(message, expiration_date, teacher_username, start_date, now) ==
    LET announcement == [message |-> message,
                         expiration_date |-> expiration_date,
                         created_by |-> teacher_username,
                         created_at |-> now]
    IN  IF Truthy(start_date)
        THEN Merge(announcement, Field("start_date", start_date))
        ELSE announcement

\* insert_one(d): the collection with d under the fresh identifier oid
insert_one(oid, d) == [o \in DOMAIN store \cup {oid} |-> IF o = oid THEN d ELSE store[o]]

create_announcement(message, expiration_date, teacher_username, start_date, now) ==
    IF ~TeacherFound(teacher_username)
    THEN [store |-> store,
          resp |-> HTTPException("create_announcement", 401,
                                 "Invalid teacher credentials", << >>)]
    ELSE IF ~DatesParse(expiration_date, start_date)
    THEN [store |-> store,
          resp |-> HTTPException("create_announcement", 400,
                                 "Invalid date format. Use ISO 8601 format", << >>)]
    ELSE LET announcement == NewAnnouncement(message, expiration_date,
                                             teacher_username, start_date, now)
             oid == NewOid(inserted + 1)
         IN  [store |-> insert_one(oid, announcement),
              resp |-> [op |-> "create_announcement", status |-> 200,
                        body |-> Merge(announcement, Field("_id", str(oid))),
                        calls |-> << "insert_one" >>]]

\* delete_one({"_id": oid}): the collection afterwards
delete_one(oid) == [o \in DOMAIN store \ {oid} |-> store[o]]

\* result.deleted_count of delete_one({"_id": oid})
deleted_count(oid) == IF oid \in DOMAIN store THEN 1 ELSE 0

\* delete_announcement with the identifier checked before the teacher
delete_announcement_IdFirst(announcement_id, teacher_username) ==
    IF ~is_valid(announcement_id)
    THEN [store |-> store,
          resp |-> HTTPException("delete_announcement", 400,
                                 "Invalid announcement_id format", << >>)]
    ELSE IF ~TeacherFound(teacher_username)
    THEN [store |-> store,
          resp |-> HTTPException("delete_announcement", 401,
                                 "Invalid teacher credentials", << >>)]
    ELSE [store |-> delete_one(ObjectId(announcement_id)),
          resp |-> IF deleted_count(ObjectId(announcement_id)) = 0
                   THEN HTTPException("delete_announcement", 404,
                                      "Announcement not found", << "delete_one" >>)
                   ELSE [op |-> "delete_announcement", status |-> 200,
                         body |-> [message |-> "Announcement deleted successfully"],
                         calls |-> << "delete_one" >>]]

delete_announcement(announcement_id, teacher_username) ==
    IF ~TeacherFound(teacher_username)
    THEN [store |-> store,
          resp |-> HTTPException("delete_announcement", 401,
                                 "Invalid teacher credentials", << >>)]
    ELSE IF ~is_valid(announcement_id)
    THEN [store |-> store,
          resp |-> HTTPException("delete_announcement", 400,
                                 "Invalid announcement_id format", << >>)]
    ELSE [store |-> delete_one(ObjectId(announcement_id)),
          resp |-> IF deleted_count(ObjectId(announcement_id)) = 0
                   THEN HTTPException("delete_announcement", 404,
                                      "Announcement not found", << "delete_one" >>)
                   ELSE [op |-> "delete_announcement", status |-> 200,
                         body |-> [message |-> "Announcement deleted successfully"],
                         calls |-> << "delete_one" >>]]

\* a request is received
Serve == served < MaxRequests /\ served' = served + 1

GetActive(current_time) ==
    /\ Serve
    /\ resp' \in get_active_announcements(current_time)
    /\ UNCHANGED << store, inserted, reqs >>

GetAll(teacher_username) ==
    /\ Serve
    /\ resp' \in get_all_announcements(teacher_username)
    /\ UNCHANGED << store, inserted, reqs >>

Create(message, expiration_date, teacher_username, start_date, now) ==
    LET r == create_announcement(message, expiration_date, teacher_username,
                                 start_date, now)
    IN  /\ Serve
        /\ resp' = r.resp
        /\ resp'.status = 200 => inserted < MaxOid
        /\ store' = r.store
        /\ inserted' = IF resp'.status = 200 THEN inserted + 1 ELSE inserted
        /\ UNCHANGED reqs

Delete(announcement_id, teacher_username) ==
    LET r == delete_announcement(announcement_id, teacher_username)
    IN  /\ Serve
        /\ store' = r.store
        /\ resp' = r.resp
        /\ UNCHANGED << inserted, reqs >>

(***************************************************************************)
(* update_announcement issues up to three operations to the collection:    *)
(* the $unset of start_date, the $set of update_data and the find_one that *)
(* reads the document back.  Each is a step of its own; pc says which      *)
(* comes next.  A request in flight holds announcement_id and update_data. *)
(***************************************************************************)
\* a request that ended: what it held, the status, the exception raised
\* ("" for a normal return) and the body returned
Done(r, status_code, raised, body) ==
    [f \in DOMAIN r \cup {"status", "raised", "body"} |->
        IF f = "pc" THEN "done"
        ELSE IF f = "status" THEN status_code
        ELSE IF f = "raised" THEN raised
        ELSE IF f = "body" THEN body
        ELSE r[f]]

\* UpdateData that writes the time to created_at
UpdateData_CreatedAt(message, expiration_date, teacher_username, start_date, now) ==
    LET update_data == [message |-> message,
                        expiration_date |-> expiration_date,
                        updated_by |-> teacher_username,
                        created_at |-> now]
    IN  IF Truthy(start_date)
        THEN Merge(update_data, Field("start_date", start_date))
        ELSE update_data

\* update_data of update_announcement
UpdateData(message, expiration_date, teacher_username, start_date, now) ==
    LET update_data == [message |-> message,
                        expiration_date |-> expiration_date,
                        updated_by |-> teacher_username,
                        updated_at |-> now]
    IN  IF Truthy(start_date)
        THEN Merge(update_data, Field("start_date", start_date))
        ELSE update_data

\* update_one({"_id": oid}, {"$unset": {"start_date": ""}})
unset_start_date(oid) ==
    [o \in DOMAIN store |-> IF o = oid THEN Unset(store[o], "start_date") ELSE store[o]]

\* set_fields with upsert=True
set_fields_Upsert(oid, update_data) ==
    [o \in DOMAIN store \cup {oid} |->
        IF o = oid
        THEN (IF o \in DOMAIN store THEN Merge(store[o], update_data) ELSE update_data)
        ELSE store[o]]

\* update_one({"_id": oid}, {"$set": update_data})
set_fields(oid, update_data) ==
    [o \in DOMAIN store |-> IF o = oid THEN Merge(store[o], update_data) ELSE store[o]]

\* result.matched_count of update_one({"_id": oid}, ...)
matched_count(oid) == IF oid \in DOMAIN store THEN 1 ELSE 0

\* lines 124-148: the checks, update_data and the choice of the first
\* operation; the request as it stands afterwards
update_begin(announcement_id, message, expiration_date, teacher_username, start_date, now) ==
    IF ~TeacherFound(teacher_username)
    THEN Done(Idle, 401, "HTTPException", [detail |-> "Invalid teacher credentials"])
    ELSE IF ~DatesParse(expiration_date, start_date)
    THEN Done(Idle, 400, "HTTPException",
              [detail |-> "Invalid date format. Use ISO 8601 format"])
    ELSE [pc |-> IF Truthy(start_date) THEN "set" ELSE "unset",
          announcement_id |-> announcement_id,
          update_data |-> UpdateData(message, expiration_date, teacher_username,
                                     start_date, now)]

\* lines 151-154 for the request r; ObjectId(announcement_id) raises
\* InvalidId, which no handler catches
update_unset(r) ==
    IF ~is_valid(r.announcement_id)
    THEN [store |-> store,
          req |-> Done(r, 500, "InvalidId", [detail |-> "Internal Server Error"])]
    ELSE [store |-> unset_start_date(ObjectId(r.announcement_id)),
          req |-> [r EXCEPT !.pc = "set"]]

\* lines 156-162 for the request r
update_set(r) ==
    IF ~is_valid(r.announcement_id)
    THEN [store |-> store,
          req |-> Done(r, 500, "InvalidId", [detail |-> "Internal Server Error"])]
    ELSE [store |-> set_fields(ObjectId(r.announcement_id), r.update_data),
          req |-> IF matched_count(ObjectId(r.announcement_id)) = 0
                  THEN Done(r, 404, "HTTPException",
                            [detail |-> "Announcement not found"])
                  ELSE [r EXCEPT !.pc = "find"]]

\* lines 164-167 for the request r: find_one returns None for no match and
\* announcement["_id"] of None raises TypeError
update_find(r) ==
    IF ObjectId(r.announcement_id) \in DOMAIN store
    THEN Done(r, 200, "", Doc(ObjectId(r.announcement_id)))
    ELSE Done(r, 500, "TypeError", [detail |-> "Internal Server Error"])

\* the worker a new request runs on: the first idle one, or one whose request
\* has ended when none is idle (workers are interchangeable)
FreeSlot(s) ==
    \/ reqs[s].pc = "idle" /\ \A q \in Slots : q < s => reqs[q].pc # "idle"
    \/ reqs[s].pc = "done" /\ \A q \in Slots : reqs[q].pc # "idle"

UpdateBegin(s, announcement_id, message, expiration_date, teacher_username, start_date, now) ==
    /\ Serve
    /\ FreeSlot(s)
    /\ reqs' = [reqs EXCEPT ![s] = update_begin(announcement_id, message,
                    expiration_date, teacher_username, start_date, now)]
    /\ UNCHANGED << store, inserted, resp >>

UpdateUnset(s) ==
    /\ reqs[s].pc = "unset"
    /\ store' = update_unset(reqs[s]).store
    /\ reqs' = [reqs EXCEPT ![s] = update_unset(reqs[s]).req]
    /\ UNCHANGED << inserted, resp, served >>

UpdateSet(s) ==
    /\ reqs[s].pc = "set"
    /\ store' = update_set(reqs[s]).store
    /\ reqs' = [reqs EXCEPT ![s] = update_set(reqs[s]).req]
    /\ UNCHANGED << inserted, resp, served >>

UpdateFind(s) ==
    /\ reqs[s].pc = "find"
    /\ reqs' = [reqs EXCEPT ![s] = update_find(reqs[s])]
    /\ UNCHANGED << store, inserted, resp, served >>

Next ==
    \/ \E t \in Times : GetActive(t)
    \/ \E u \in Usernames \cup {NoUser, ""} : GetAll(u)
    \/ \E m \in Messages, e \in ExpirationDates, u \in Usernames, sd \in StartDates,
          t \in Times : Create(m, e, u, sd, t)
    \/ \E id \in AnnouncementIds, u \in Usernames : Delete(id, u)
    \/ \E s \in Slots, id \in AnnouncementIds, m \in Messages, e \in ExpirationDates,
          u \in Usernames, sd \in StartDates, t \in Times :
            UpdateBegin(s, id, m, e, u, sd, t)
    \/ \E s \in Slots : UpdateUnset(s)
    \/ \E s \in Slots : UpdateSet(s)
    \/ \E s \in Slots : UpdateFind(s)

Spec == Init /\ [][Next]_vars

(***************************************************************************)
(* SpecQuery: the two listings as functions of the collection.  It starts  *)
(* from every collection of up to MaxOid announcements that                *)
(* create_announcement can have stored, with the dates on either side of   *)
(* the clock, and serves listings only.                                    *)
(***************************************************************************)
Created ==
    { NewAnnouncement(m, e, u, sd, t) :
        m \in {"m1"}, e \in GoodDates, u \in Teachers, sd \in GoodDates \cup {None},
        t \in Times }

InitQuery ==
    /\ inserted \in 0..MaxOid
    /\ store \in [{NewOid(n) : n \in 1..inserted} -> Created]
    /\ reqs = [s \in Slots |-> Idle]
    /\ resp = NoResponse
    /\ served = 0

NextQuery ==
    \/ \E t \in Times : GetActive(t)
    \/ \E u \in Usernames \cup {NoUser, ""} : GetAll(u)

SpecQuery == InitQuery /\ [][NextQuery]_vars

(***************************************************************************)
(* The properties.                                                         *)
(***************************************************************************)
\* the documents of a listing
Returned(r) == {r.body[i] : i \in 1..Len(r.body)}

\* the identifiers insert_one has handed out
Issued == {NewOid(n) : n \in 1..inserted}

\* a date that fromisoformat takes
Parses(date) == fromisoformat(ReplaceZ(date))

C1_Expired(d, now) == StrLt(d["expiration_date"], now)

C1_NotStarted(d, now) == "start_date" \in DOMAIN d /\ StrLt(now, d["start_date"])

C1_Result ==
    \A t \in Times : \A r \in get_active_announcements(t) :
        /\ Returned(r) =
              { Doc(o) : o \in {x \in DOMAIN store :
                                  ~C1_Expired(store[x], t) /\ ~C1_NotStarted(store[x], t)} }
        /\ Len(r.body) = Cardinality(Returned(r))

\* C1: at every content of the collection and every time, the listing of
\* get_active_announcements holds exactly the stored announcements that have
\* not expired (expiration_date >= now as strings) and have started (no
\* start_date, or start_date <= now as strings), each once, and serving it
\* leaves the collection as it was.
C1_ActiveListing ==
    /\ []C1_Result
    /\ [][\A t \in Times : GetActive(t) => store' = store]_vars

\* a listing that kept an announcement with a start_date and left out another
C1_Witness ==
    /\ resp.op = "get_active_announcements"
    /\ \E d \in Returned(resp) : "start_date" \in DOMAIN d
    /\ \E o \in DOMAIN store :
          /\ C1_Expired(store[o], resp.now) \/ C1_NotStarted(store[o], resp.now)
          /\ Doc(o) \notin Returned(resp)

C2_BadDates(expiration_date, start_date) ==
    \/ ~Parses(expiration_date)
    \/ Truthy(start_date) /\ ~Parses(start_date)

\* the inputs that do not pass the checks, with the status each must get
C2_BadInputs ==
    { x \in [e : ExpirationDates, u : Usernames, sd : StartDates] :
        x.u \notin Teachers \/ C2_BadDates(x.e, x.sd) }

C2_Status(x) == IF x.u \notin Teachers THEN 401 ELSE 400

C2_Handlers ==
    /\ \A x \in C2_BadInputs, m \in Messages, t \in Times :
          /\ LET r == create_announcement(m, x.e, x.u, x.sd, t)
             IN  r.store = store /\ r.resp.status = C2_Status(x)
          /\ \A id \in AnnouncementIds :
                LET q == update_begin(id, m, x.e, x.u, x.sd, t)
                IN  q.pc = "done" /\ q.status = C2_Status(x)
    /\ \A id \in AnnouncementIds, u \in Usernames :
          u \notin Teachers \/ ~is_valid(id) =>
             LET r == delete_announcement(id, u)
             IN  /\ r.store = store
                 /\ r.resp.status = (IF u \notin Teachers THEN 401 ELSE 400)

\* a step that ends a request with 400 or 401
C2_RejectingStep ==
    /\ served' # served
    /\ \/ reqs' = reqs /\ resp'.status \in {400, 401}
       \/ \E s \in Slots : reqs'[s] # reqs[s] /\ reqs'[s].pc = "done"

\* C2: a create, update or delete request with an unknown teacher ends with
\* 401, one with a known teacher and an unparseable expiration_date or
\* supplied start_date (create, update) with 400, a delete by a known teacher
\* of a malformed identifier with 400; the request ends there and the
\* collection is as it was before the request.
C2_ValidationFailure ==
    /\ []C2_Handlers
    /\ [][C2_RejectingStep => store' = store]_vars

\* with an announcement stored, an update was rejected for its dates and a
\* create for its teacher
C2_Witness ==
    /\ store # EmptyStore
    /\ \E s \in Slots : reqs[s].pc = "done" /\ reqs[s].status = 400
    /\ resp.op = "create_announcement" /\ resp.status = 401

\* C5: delete_announcement answers an unknown teacher with 401 whatever the
\* identifier; a known teacher with a malformed identifier with 400, no
\* operation issued to the collection; a known teacher with a well-formed
\* identifier of no stored announcement with 404; and in all three the
\* collection is unchanged.
C5_DeleteOrder ==
    \A id \in AnnouncementIds, u \in Usernames :
        LET r == delete_announcement(id, u)
        IN  /\ u \notin Teachers =>
                 r.resp.status = 401 /\ r.resp.calls = << >> /\ r.store = store
            /\ u \in Teachers /\ ~is_valid(id) =>
                 r.resp.status = 400 /\ r.resp.calls = << >> /\ r.store = store
            /\ u \in Teachers /\ is_valid(id) /\ ObjectId(id) \notin DOMAIN store =>
                 r.resp.status = 404 /\ r.store = store

\* a delete answered 400 while announcements are stored
C5_Witness ==
    /\ resp.op = "delete_announcement" /\ resp.status = 400
    /\ store # EmptyStore

\* C9: every stored announcement has an expiration_date that fromisoformat
\* takes, a start_date that is absent or a non-empty string that
\* fromisoformat takes, and a created_by in the Teacher Directory.
C9_StoredValid ==
    \A o \in DOMAIN store :
        /\ Parses(store[o]["expiration_date"])
        /\ "start_date" \in DOMAIN store[o] =>
              /\ store[o]["start_date"] \notin {None, << >>}
              /\ Parses(store[o]["start_date"])
        /\ store[o]["created_by"] \in Teachers

\* an announcement created without start_date that an update gave one
C9_Witness ==
    \E o \in DOMAIN store :
        /\ "start_date" \in DOMAIN store[o]
        /\ "updated_by" \in DOMAIN store[o]
        /\ resp.op = "create_announcement" /\ resp.status = 200
        /\ "start_date" \notin DOMAIN resp.body

\* the request in slot s returned the document it read back
Returned200(s) == reqs[s].pc = "done" /\ reqs[s].status = 200

\* C3 (as claimed): an update without start_date that returns a document
\* returns one without start_date, whatever other updates of the same
\* announcement run meanwhile.
C3_StartDateRemoved ==
    \A s \in Slots :
        Returned200(s) /\ "start_date" \notin DOMAIN reqs[s].update_data =>
            "start_date" \notin DOMAIN reqs[s].body

\* the announcement_id of the request in slot s matches no stored announcement
C4_NoMatch(s) ==
    \/ ~is_valid(reqs[s].announcement_id)
    \/ ObjectId(reqs[s].announcement_id) \notin DOMAIN store

\* C4 (as claimed): a step of an update by a known teacher with parseable
\* dates whose announcement_id matches no stored announcement leaves the
\* collection unchanged, and when it ends the request it ends it with 404.
C4_UpdateNotFound ==
    [][\A s \in Slots :
          reqs[s].pc \in {"unset", "set"} /\ reqs'[s] # reqs[s] /\ C4_NoMatch(s) =>
              /\ store' = store
              /\ reqs'[s].pc = "done" => reqs'[s].status = 404]_vars

\* an identifier that was handed out and is stored no more
Deleted(oid) == oid \in Issued /\ oid \notin DOMAIN store

C6_Handlers ==
    /\ \A id \in AnnouncementIds, u \in Teachers :
          is_valid(id) =>
             LET r == delete_announcement(id, u)
             IN  /\ r.resp.status = 200 =>
                      /\ ObjectId(id) \in DOMAIN store
                      /\ DOMAIN r.store = DOMAIN store \ {ObjectId(id)}
                      /\ \A o \in DOMAIN r.store : r.store[o] = store[o]
                 /\ Deleted(ObjectId(id)) => r.resp.status = 404 /\ r.store = store
    /\ \A id \in AnnouncementIds, m \in Messages, e \in ExpirationDates, u \in Teachers,
          sd \in StartDates, t \in Times :
          /\ is_valid(id) /\ Deleted(ObjectId(id))
          /\ Parses(e) /\ (Truthy(sd) => Parses(sd))
          => update_begin(id, m, e, u, sd, t).pc \in {"unset", "set"}
    /\ \A s \in Slots :
          /\ reqs[s].pc \in {"unset", "set"}
          /\ is_valid(reqs[s].announcement_id)
          /\ Deleted(ObjectId(reqs[s].announcement_id))
          => /\ reqs[s].pc = "unset" =>
                  /\ update_unset(reqs[s]).req.pc = "set"
                  /\ update_unset(reqs[s]).store = store
             /\ reqs[s].pc = "set" =>
                  /\ update_set(reqs[s]).req.pc = "done"
                  /\ update_set(reqs[s]).req.status = 404
                  /\ update_set(reqs[s]).store = store
    /\ \A r \in UNION {get_active_announcements(t) : t \in Times}
                  \cup UNION {get_all_announcements(u) : u \in Teachers} :
          \A d \in Returned(r) : ~Deleted(ObjectId(d["_id"]))

\* C6 (amended): a successful delete removes the announcement of that
\* identifier and no other; from then on the identifier never names a
\* stored announcement again: a later delete by a known teacher is answered
\* 404, a later update by a known teacher with parseable dates goes to the
\* collection, changes nothing and is answered 404, and no listing returns
\* it.
C6_DeletedForGood ==
    /\ []C6_Handlers
    /\ [][\A o \in Issued : o \notin DOMAIN store => o \notin DOMAIN store']_vars

\* an update of a deleted announcement was answered 404
C6_Witness ==
    \E s \in Slots :
        /\ reqs[s].pc = "done" /\ reqs[s].status = 404
        /\ Deleted(ObjectId(reqs[s].announcement_id))

\* C6 (as claimed): every update of a deleted announcement by a known
\* teacher that has an outcome has the outcome 404.
C6_UpdateAlwaysNotFound ==
    [][\A id \in AnnouncementIds :
          is_valid(id) /\ Deleted(ObjectId(id)) /\ served' # served /\ reqs' # reqs =>
             \A s \in Slots, m \in Messages, e \in ExpirationDates, u \in Teachers,
                sd \in StartDates, t \in Times :
                UpdateBegin(s, id, m, e, u, sd, t) =>
                   (reqs'[s].pc = "done" => reqs'[s].status = 404)]_vars

\* C7 (as claimed): an update whose $set matched returns normally, and the
\* document it returns has its identifier, message, expiration_date and
\* teacher.
C7_ReturnsUpdated ==
    \A s \in Slots :
        reqs[s].pc = "done" /\ reqs[s].raised \in {"", "TypeError"} =>
            /\ reqs[s].status = 200
            /\ ObjectId(reqs[s].body["_id"]) = ObjectId(reqs[s].announcement_id)
            /\ reqs[s].body["message"] = reqs[s].update_data["message"]
            /\ reqs[s].body["expiration_date"] = reqs[s].update_data["expiration_date"]
            /\ reqs[s].body["updated_by"] = reqs[s].update_data["updated_by"]

\* the document d is what the update with update_data leaves when it runs alone
C8_Alone(d, update_data) ==
    /\ \A f \in DOMAIN update_data : f \in DOMAIN d /\ d[f] = update_data[f]
    /\ "start_date" \notin DOMAIN update_data => "start_date" \notin DOMAIN d

\* C8 (as claimed): when two updates of the same announcement have both
\* returned, the stored announcement is what one of them leaves when it
\* runs alone.
C8_LastWriteWins ==
    \A s1, s2 \in Slots :
        /\ s1 # s2
        /\ Returned200(s1) /\ Returned200(s2)
        /\ ObjectId(reqs[s1].announcement_id) = ObjectId(reqs[s2].announcement_id)
        /\ ObjectId(reqs[s1].announcement_id) \in DOMAIN store
        /\ \A q \in Slots \ {s1, s2} : reqs[q].pc \in {"idle", "done"}
        => \/ C8_Alone(store[ObjectId(reqs[s1].announcement_id)], reqs[s1].update_data)
           \/ C8_Alone(store[ObjectId(reqs[s2].announcement_id)], reqs[s2].update_data)

\* the fields update_announcement may change
C10_Mutable == {"message", "expiration_date", "start_date", "updated_by", "updated_at"}

\* the identifiers the request in slot s, before or after its step, names
C10_Target(old, new) ==
    {ObjectId(r.announcement_id) :
        r \in {x \in {old, new} : "announcement_id" \in DOMAIN x /\ is_valid(x.announcement_id)}}

C10_Frame(old, new, target) ==
    /\ DOMAIN new = DOMAIN old
    /\ \A o \in DOMAIN old :
          IF o \in target
          THEN /\ DOMAIN new[o] \subseteq DOMAIN old[o] \cup C10_Mutable
               /\ \A f \in DOMAIN old[o] \ C10_Mutable :
                     f \in DOMAIN new[o] /\ new[o][f] = old[o][f]
          ELSE new[o] = old[o]

\* C10: every step of an update request leaves the number of stored
\* announcements and every announcement of another identifier unchanged, and
\* in the announcement it names only message, expiration_date, start_date,
\* updated_by and updated_at can differ; created_by and created_at stay.
C10_UpdateFrame ==
    [][\A s \in Slots :
          reqs'[s] # reqs[s] => C10_Frame(store, store', C10_Target(reqs[s], reqs'[s]))]_vars

\* of two stored announcements one was updated and changed its message
C10_Witness ==
    \E s \in Slots, o \in DOMAIN store :
        /\ Returned200(s)
        /\ ObjectId(reqs[s].announcement_id) # o
        /\ "updated_by" \notin DOMAIN store[o]
        /\ "updated_by" \in DOMAIN reqs[s].body

====
